---------------------------- MODULE Spec2Model ----------------------------
(***************************************************************************)
(* Dynamic occupancy-grid core of Firmware/ESP32/.../APP/app_slam.c:       *)
(* the toroidal grid store, the translation of the grid, the sub-pixel     *)
(* drift accumulator and the footprint clearing, driven by the 100 ms      *)
(* tick.                                                                   *)
(*                                                                         *)
(* Millimetre quantities (float in the source) are integers counted in     *)
(* 1/MM_UNITS of a millimetre.  The map edge is scaled down from the       *)
(* source's 1000 mm so that the grid can be explored exhaustively; every   *)
(* other constant keeps the source's value and derivation.                 *)
(***************************************************************************)
EXTENDS Integers, FiniteSets, Sequences, TLC

(***************************************************************************)
(* Bounds of the model.                                                    *)
(***************************************************************************)
\* Edge of the map in mm (GMAP_SQUARE_EDGE_SIZE_MM is 1000U in the source).
GMAP_SQUARE_EDGE_SIZE_MM == 120
\* Fixed-point units per millimetre for the float quantities.
MM_UNITS == 2
\* Ticks explored after an initialisation.
MaxTicks == 3
\* How far beyond the wrap's documented input range the wrap is exercised.
WrapMargin == 12
\* A translation called on its own moves at most this far on one of its axes.
TranslateNear == 1
\* Ticks explored with the built-in displacement: eight turns of the
\* indexer around the scaled map.
MaxMockTicks == 104
\* A translation on both axes at once moves at most this far on both, or
\* equally far on both.
DiagonalNear == 2

(***************************************************************************)
(* Parameterisation and pre-compile constants (app_slam.c:31-64).          *)
(***************************************************************************)
ROBOT_SIZE_D_MM == 100
GMAP_UNIT_GRID_STEP_SIZE_MM == 10
GRID_CELL_NEUTRAL == 0
GRID_CELL_VISITED == -10

ROBOT_SIZE_D_PIXEL == ROBOT_SIZE_D_MM \div GMAP_UNIT_GRID_STEP_SIZE_MM
ROBOT_SIZE_R_PIXEL == ROBOT_SIZE_D_PIXEL \div 2
GMAP_GRID_EDGE_SIZE_PIXEL == GMAP_SQUARE_EDGE_SIZE_MM \div GMAP_UNIT_GRID_STEP_SIZE_MM
GMAP_WN_PIXEL == GMAP_GRID_EDGE_SIZE_PIXEL + 1
GMAP_HN_PIXEL == GMAP_GRID_EDGE_SIZE_PIXEL + 1
GMAP_DEFAULT_CENTRAL_X_INDEX_PIXEL == GMAP_GRID_EDGE_SIZE_PIXEL \div 2
GMAP_DEFAULT_CENTRAL_Y_INDEX_PIXEL == GMAP_GRID_EDGE_SIZE_PIXEL \div 2

\* Shorthand used by the properties: E of the design text, and the buffer.
E == GMAP_GRID_EDGE_SIZE_PIXEL
CellIndex == 0 .. (GMAP_WN_PIXEL * GMAP_HN_PIXEL - 1)
\* One grid step in fixed-point units.
StepUnits == GMAP_UNIT_GRID_STEP_SIZE_MM * MM_UNITS

(***************************************************************************)
(* Macro functions (app_slam.c:67-69) and the offset table (line 122).     *)
(***************************************************************************)
\* C division of a float by the step followed by the (int32_t) cast: the
\* cast discards the fraction, i.e. rounds toward zero.
GMAP_MM_TO_UNIT_PIXEL_floor(x_mm) == x_mm \div StepUnits

GMAP_MM_TO_UNIT_PIXEL(x_mm) ==
    IF x_mm >= 0 THEN x_mm \div StepUnits ELSE -((-x_mm) \div StepUnits)

GMAP_UNIT_PIXEL_TO_MM_unscaled(x_pixel) == x_pixel * MM_UNITS

GMAP_UNIT_PIXEL_TO_MM(x_pixel) == x_pixel * StepUnits

ARG_RANGE_INCLUSIVE_gt(x_val, min, max) ==
    (IF x_val >= min THEN 1 ELSE 0) + (IF x_val > max THEN 1 ELSE 0)

ARG_RANGE_INCLUSIVE(x_val, min, max) ==
    (IF x_val >= min THEN 1 ELSE 0) + (IF x_val >= max THEN 1 ELSE 0)

\* MAP_OFFSET[3] = {WN, 0, -WN}; TLA+ sequences are indexed from 1.
MAP_OFFSET == << GMAP_WN_PIXEL, 0, -GMAP_WN_PIXEL >>

\* The idiom  c + MAP_OFFSET[ARG_RANGE_INCLUSIVE(c, 0, max)]  of lines
\* 195, 216, 229, 230, 252 and 259.
Wrap(c, max) == c + MAP_OFFSET[ARG_RANGE_INCLUSIVE(c, 0, max) + 1]

(***************************************************************************)
(* dynamic_map_S and its reset (app_slam.c:89-93, 153-158).                *)
(***************************************************************************)
\* The reset without lines 156-157: the indexer left at the memset's zero.
app_slam_private_resetGlobalMap_zeroed ==
    [ data             |-> [k \in CellIndex |-> 0],
      map_center_pixel |-> [x |-> 0, y |-> 0],
      map_offset_mm    |-> [x |-> 0, y |-> 0] ]

app_slam_private_resetGlobalMap ==
    [ data             |-> [k \in CellIndex |-> 0],
      map_center_pixel |-> [x |-> GMAP_DEFAULT_CENTRAL_X_INDEX_PIXEL,
                            y |-> GMAP_DEFAULT_CENTRAL_Y_INDEX_PIXEL],
      map_offset_mm    |-> [x |-> 0, y |-> 0] ]

\* mdata[k] = v for every linear index k of S.  A store whose index is not
\* inside data[] does not change data[]: it lands outside the array.
StoreAll(data, S, v) == [k \in CellIndex |-> IF k \in S THEN v ELSE data[k]]

\* The stores of S that fall outside data[].
Stray(S) == S \ CellIndex

(***************************************************************************)
(* app_slam_private_translateGlobalMap (app_slam.c:165-231).               *)
(***************************************************************************)
\* start and end of a band (lines 180-189 and 204-213).
BandStart(c00, d_pixel) == IF d_pixel >= 0 THEN c00 ELSE c00 + d_pixel

BandEnd(c00, d_pixel) == IF d_pixel >= 0 THEN c00 + d_pixel ELSE c00

\* The values the loop variable takes: for (i = start; i < end; i ++).
BandLoop_inclusive(c00, d_pixel) == BandStart(c00, d_pixel) .. BandEnd(c00, d_pixel)

BandLoop(c00, d_pixel) == BandStart(c00, d_pixel) .. (BandEnd(c00, d_pixel) - 1)

\* Linear indices stored by "reset Vertical Columns" (lines 178-200).
ColumnStores(mc_pixel, dx_pixel) ==
    IF dx_pixel = 0 THEN {}
    ELSE LET x00 == mc_pixel.x - GMAP_DEFAULT_CENTRAL_X_INDEX_PIXEL
         IN  { j * GMAP_WN_PIXEL + Wrap(i, GMAP_WN_PIXEL) :
                   j \in 0 .. (GMAP_HN_PIXEL - 1), i \in BandLoop(x00, dx_pixel) }

\* Linear indices stored by "reset Horizontal Columns" (lines 202-223).
RowStores(mc_pixel, dy_pixel) ==
    IF dy_pixel = 0 THEN {}
    ELSE LET y00 == mc_pixel.y - GMAP_DEFAULT_CENTRAL_Y_INDEX_PIXEL
         IN  { Wrap(j, GMAP_HN_PIXEL) * GMAP_WN_PIXEL + i :
                   j \in BandLoop(y00, dy_pixel), i \in 0 .. (GMAP_WN_PIXEL - 1) }

TranslateStores(mc_pixel, d_pixel) ==
    ColumnStores(mc_pixel, d_pixel.x) \cup RowStores(mc_pixel, d_pixel.y)

\* Lines 225-230: advance one component of the indexer and saturate it.
TranslateIndex_nowrap(c, d_pixel, max) == c + d_pixel

TranslateIndex_edge(c, d_pixel, max) == Wrap(c + d_pixel, max - 1)

TranslateIndex(c, d_pixel, max) == Wrap(c + d_pixel, max)

TranslateCenter(mc_pixel, d_pixel) ==
    [x |-> TranslateIndex(mc_pixel.x, d_pixel.x, GMAP_WN_PIXEL),
     y |-> TranslateIndex(mc_pixel.y, d_pixel.y, GMAP_HN_PIXEL)]

\* The row pass taken only when there is no column pass.
app_slam_private_translateGlobalMap_elseif(m, d_pixel) ==
    [ m EXCEPT
        !.data = StoreAll(m.data,
                          IF d_pixel.x # 0 THEN ColumnStores(m.map_center_pixel, d_pixel.x)
                                           ELSE RowStores(m.map_center_pixel, d_pixel.y),
                          GRID_CELL_NEUTRAL),
        !.map_center_pixel = TranslateCenter(m.map_center_pixel, d_pixel) ]

app_slam_private_translateGlobalMap(m, d_pixel) ==
    [ m EXCEPT
        !.data = StoreAll(m.data, TranslateStores(m.map_center_pixel, d_pixel),
                          GRID_CELL_NEUTRAL),
        !.map_center_pixel = TranslateCenter(m.map_center_pixel, d_pixel) ]

(***************************************************************************)
(* app_slam_private_clearVehicleRegion (app_slam.c:238-264).               *)
(***************************************************************************)
PADDING_skewed == << 4, 2, 1, 1, 0, 0, 0, 1, 1, 2, 3 >>

PADDING == << 4, 2, 1, 1, 0, 0, 0, 1, 1, 2, 4 >>

\* The (i, j) pairs the two loops visit (lines 249 and 256).
VehicleMask_exclusive ==
    { p \in (0 .. ROBOT_SIZE_D_PIXEL) \X (0 .. ROBOT_SIZE_D_PIXEL) :
        /\ PADDING[p[2] + 1] <= p[1]
        /\ p[1] < ROBOT_SIZE_D_PIXEL - PADDING[p[2] + 1] }

VehicleMask ==
    { p \in (0 .. ROBOT_SIZE_D_PIXEL) \X (0 .. ROBOT_SIZE_D_PIXEL) :
        /\ PADDING[p[2] + 1] <= p[1]
        /\ p[1] <= ROBOT_SIZE_D_PIXEL - PADDING[p[2] + 1] }

\* y + x of line 261 for loop variables (i, j).
VehicleIndex(mc_pixel, i, j) ==
    Wrap(mc_pixel.y - ROBOT_SIZE_R_PIXEL + j, GMAP_HN_PIXEL) * GMAP_WN_PIXEL
      + Wrap(mc_pixel.x - ROBOT_SIZE_R_PIXEL + i, GMAP_WN_PIXEL)

VehicleStores(mc_pixel) == { VehicleIndex(mc_pixel, p[1], p[2]) : p \in VehicleMask }

app_slam_private_clearVehicleRegion_accumulate(m) ==
    [ m EXCEPT !.data = [k \in CellIndex |->
          IF k \in VehicleStores(m.map_center_pixel)
          THEN m.data[k] + GRID_CELL_VISITED ELSE m.data[k]] ]

app_slam_private_clearVehicleRegion(m) ==
    [ m EXCEPT !.data = StoreAll(m.data, VehicleStores(m.map_center_pixel),
                                 GRID_CELL_VISITED) ]

(***************************************************************************)
(* app_slam_private_globalMapUpdate (app_slam.c:266-301).  mock is the     *)
(* displacement (mock_dx_mm, mock_dy_mm) the localisation hands over.      *)
(***************************************************************************)
\* Lines 275-276: the request plus the leftover of the previous update.
CombinedMM_fresh(m, mock) == mock

CombinedMM(m, mock) ==
    [x |-> mock.x + m.map_offset_mm.x, y |-> mock.y + m.map_offset_mm.y]

\* Lines 278-279.
PixelShift(m, mock) ==
    [x |-> GMAP_MM_TO_UNIT_PIXEL(CombinedMM(m, mock).x),
     y |-> GMAP_MM_TO_UNIT_PIXEL(CombinedMM(m, mock).y)]

\* Lines 283-287.
LeftoverMM_combined(m, mock) == CombinedMM(m, mock)

LeftoverMM(m, mock) ==
    [x |-> CombinedMM(m, mock).x - GMAP_UNIT_PIXEL_TO_MM(PixelShift(m, mock).x),
     y |-> CombinedMM(m, mock).y - GMAP_UNIT_PIXEL_TO_MM(PixelShift(m, mock).y)]

\* The two calls of lines 281 and 292 in the opposite order.
app_slam_private_globalMapUpdate_reversed(m, mock) ==
    LET stamped    == app_slam_private_clearVehicleRegion(m)
        translated == app_slam_private_translateGlobalMap(stamped, PixelShift(m, mock))
    IN  [translated EXCEPT !.map_offset_mm = LeftoverMM(m, mock)]

app_slam_private_globalMapUpdate(m, mock) ==
    LET translated == app_slam_private_translateGlobalMap(m, PixelShift(m, mock))
        stored     == [translated EXCEPT !.map_offset_mm = LeftoverMM(m, mock)]
    IN  app_slam_private_clearVehicleRegion(stored)

(***************************************************************************)
(* State.                                                                  *)
(***************************************************************************)
VARIABLES
    gMap,       \* slam_data.gMap: data, map_center_pixel, map_offset_mm
    clobbered,  \* memory outside data[] hit by the last operation's stores
    ticks,      \* operations run since the last initialisation
    req,        \* displacement handed to the last tick (fixed-point mm)
    shift,      \* (dx_pixel, dy_pixel) of the last translation
    sum_req,    \* history: sum of the displacements requested since init
    world,      \* history: robot position in pixels since init (sum of shifts)
    stamp,      \* history: per cell, the world pixel its VISITED mark is for
    w_arg,      \* coordinate handed to the wrap idiom
    w_ret       \* << result >> once the wrap idiom has been applied

vars == << gMap, clobbered, ticks, req, shift, sum_req, world, stamp, w_arg, w_ret >>

Zero2 == [x |-> 0, y |-> 0]

NoStamp == [tag |-> "none", x |-> 0, y |-> 0]

Gone == [tag |-> "gone", x |-> 0, y |-> 0]

At(wx, wy) == [tag |-> "at", x |-> wx, y |-> wy]

Abs(v) == IF v >= 0 THEN v ELSE -v

\* The robot-centred window: the world pixels within E/2 of the robot.
InWindow(w, pos) ==
    /\ Abs(w.x - pos.x) <= GMAP_DEFAULT_CENTRAL_X_INDEX_PIXEL
    /\ Abs(w.y - pos.y) <= GMAP_DEFAULT_CENTRAL_Y_INDEX_PIXEL

\* The world pixel that storage cell k stands for when the indexer is
\* mc_pixel and the robot is at pos: the cell's offset from the indexer,
\* taken modulo the edge into [-E/2, E/2], added to the robot's position.
Centred(c, mc, half, n) == ((c - mc + half) % n) - half

WorldOf(k, mc_pixel, pos) ==
    [x |-> pos.x + Centred(k % GMAP_WN_PIXEL, mc_pixel.x,
                           GMAP_DEFAULT_CENTRAL_X_INDEX_PIXEL, GMAP_WN_PIXEL),
     y |-> pos.y + Centred(k \div GMAP_WN_PIXEL, mc_pixel.y,
                           GMAP_DEFAULT_CENTRAL_Y_INDEX_PIXEL, GMAP_HN_PIXEL)]

\* History of the VISITED marks over one tick: a mark records the world
\* pixel its cell stands for when the footprint writes it, a store of
\* NEUTRAL removes the record, and a record whose world pixel is no longer
\* in the window is gone.
StampCells(st, cleared, marked, mc_new, pos) ==
    [k \in CellIndex |->
        IF k \in marked
          THEN At(WorldOf(k, mc_new, pos).x, WorldOf(k, mc_new, pos).y)
        ELSE IF k \in cleared THEN NoStamp
        ELSE IF st[k].tag = "at" /\ ~InWindow(st[k], pos) THEN Gone
        ELSE st[k]]

StampAfterTick(st, mc_pixel, d_pixel, pos) ==
    StampCells(st, TranslateStores(mc_pixel, d_pixel),
               VehicleStores(TranslateCenter(mc_pixel, d_pixel)),
               TranslateCenter(mc_pixel, d_pixel), pos)

\* A store outside data[] is undefined behaviour.  Its index is below 0 for
\* every input admitted here, so it lands in the memory that precedes
\* data[]: in slam_data.lidar_data, or before slam_data when lidar_data is
\* the smaller (its size is not fixed by this file).
StrayTargets(S) == IF Stray(S) = {} THEN {"none"} ELSE {"lidar_data", "foreign"}

(***************************************************************************)
(* app_slam_init (app_slam.c:364-370).                                     *)
(***************************************************************************)
Init ==
    /\ gMap = app_slam_private_resetGlobalMap
    /\ clobbered = "none"
    /\ ticks = 0
    /\ req = Zero2
    /\ shift = Zero2
    /\ sum_req = Zero2
    /\ world = Zero2
    /\ stamp = [k \in CellIndex |-> NoStamp]
    /\ w_arg = 0
    /\ w_ret = << >>

\* Called again on a running program; req and shift keep the record of the
\* last tick.
app_slam_init ==
    /\ ticks > 0
    /\ gMap' = app_slam_private_resetGlobalMap
    /\ clobbered' = "none"
    /\ ticks' = 0
    /\ sum_req' = Zero2
    /\ world' = Zero2
    /\ stamp' = [k \in CellIndex |-> NoStamp]
    /\ UNCHANGED << req, shift, w_arg, w_ret >>

(***************************************************************************)
(* app_slam_run100ms (app_slam.c:372-380): the stages other than the       *)
(* global map update are empty or touch lidar_data only.                   *)
(***************************************************************************)
app_slam_run100ms(mock) ==
    /\ LET d_pixel == PixelShift(gMap, mock)
           pos     == [x |-> world.x + d_pixel.x, y |-> world.y + d_pixel.y]
       IN  /\ gMap' = app_slam_private_globalMapUpdate(gMap, mock)
           /\ clobbered' \in StrayTargets(
                    TranslateStores(gMap.map_center_pixel, d_pixel)
                    \cup VehicleStores(TranslateCenter(gMap.map_center_pixel, d_pixel)))
           /\ shift' = d_pixel
           /\ world' = pos
           /\ stamp' = StampAfterTick(stamp, gMap.map_center_pixel, d_pixel, pos)
    /\ ticks' = ticks + 1
    /\ req' = mock
    /\ sum_req' = [x |-> sum_req.x + mock.x, y |-> sum_req.y + mock.y]
    /\ UNCHANGED << w_arg, w_ret >>

\* Displacements of the localisation, in fixed-point mm.
mm(v) == v * MM_UNITS

EdgeMM == E * GMAP_UNIT_GRID_STEP_SIZE_MM

\* Requests whose pixel shift stays within [-E, E]: the built-in mock
\* (-10 mm, -10 mm), no motion, half and fractional steps, a few pixels,
\* and a full edge in either direction.
Requests ==
    { [x |-> mm(-10),     y |-> mm(-10)],
      [x |-> 0,           y |-> 0],
      [x |-> mm(-5),      y |-> mm(5)],
      [x |-> 3,           y |-> -7],
      [x |-> mm(10),      y |-> 0],
      [x |-> mm(-20),     y |-> mm(50)],
      [x |-> mm(-EdgeMM), y |-> 0],
      [x |-> 0,           y |-> mm(-EdgeMM)],
      [x |-> mm(EdgeMM),  y |-> mm(EdgeMM)] }

Next ==
    \/ \E mock \in Requests : ticks < MaxTicks /\ app_slam_run100ms(mock)
    \/ app_slam_init

Spec == Init /\ [][Next]_vars

(***************************************************************************)
(* The same program with a localisation that may also hand over a          *)
(* displacement of more than one grid width (pixel shift E + 1).           *)
(***************************************************************************)
WideRequests ==
    Requests \cup { [x |-> mm(EdgeMM + GMAP_UNIT_GRID_STEP_SIZE_MM), y |-> 0],
                    [x |-> 0, y |-> mm(-(EdgeMM + GMAP_UNIT_GRID_STEP_SIZE_MM))] }

NextWide ==
    \/ \E mock \in WideRequests : ticks < MaxTicks /\ app_slam_run100ms(mock)
    \/ app_slam_init

SpecWide == Init /\ [][NextWide]_vars

(***************************************************************************)
(* The program as built: the displacement is the constant of lines         *)
(* 270-271, the same at every tick.                                        *)
(***************************************************************************)
mock_mm == [x |-> mm(-10), y |-> mm(-10)]

NextMock ==
    \/ ticks < MaxMockTicks /\ app_slam_run100ms(mock_mm)
    \/ app_slam_init

SpecMock == Init /\ [][NextMock]_vars

(***************************************************************************)
(* app_slam_private_translateGlobalMap called on its own, once, from map   *)
(* states the program reaches: every indexer position, with the footprints *)
(* of two ticks (the second a diagonal step of one pixel) in the cells.    *)
(***************************************************************************)
\* The request that shifts by d_pixel when the leftover is zero.
RequestFor(d_pixel) ==
    [x |-> GMAP_UNIT_PIXEL_TO_MM(d_pixel.x), y |-> GMAP_UNIT_PIXEL_TO_MM(d_pixel.y)]

\* The map two ticks after a reset, with the indexer at (cx, cy) and the
\* second tick a shift of (v, v).
MapAfterTwoTicks(cx, cy, v) ==
    app_slam_private_globalMapUpdate(
        app_slam_private_globalMapUpdate(
            app_slam_private_resetGlobalMap,
            RequestFor([x |-> cx - GMAP_DEFAULT_CENTRAL_X_INDEX_PIXEL - v,
                        y |-> cy - GMAP_DEFAULT_CENTRAL_Y_INDEX_PIXEL - v])),
        RequestFor([x |-> v, y |-> v]))

InitTranslate ==
    /\ \E cx \in 0 .. E, cy \in 0 .. E, v \in {-1, 1} : gMap = MapAfterTwoTicks(cx, cy, v)
    /\ clobbered = "none"
    /\ ticks = 0
    /\ req = Zero2
    /\ shift = Zero2
    /\ sum_req = Zero2
    /\ world = Zero2
    /\ stamp = [k \in CellIndex |-> NoStamp]
    /\ w_arg = 0
    /\ w_ret = << >>

\* Shifts within [-E, E] on both axes, one of them at most TranslateNear.
TranslateShifts ==
    { d \in [x : (-E) .. E, y : (-E) .. E] :
        Abs(d.x) <= TranslateNear \/ Abs(d.y) <= TranslateNear }

TranslateCall(d_pixel) ==
    /\ ticks = 0
    /\ gMap' = app_slam_private_translateGlobalMap(gMap, d_pixel)
    /\ clobbered' \in StrayTargets(TranslateStores(gMap.map_center_pixel, d_pixel))
    /\ shift' = d_pixel
    /\ ticks' = 1
    /\ UNCHANGED << req, sum_req, world, stamp, w_arg, w_ret >>

NextTranslate == \E d_pixel \in TranslateShifts : TranslateCall(d_pixel)

SpecTranslate == InitTranslate /\ [][NextTranslate]_vars

\* The same call with shifts on both axes at once: the two of the same
\* size, or both at most DiagonalNear.
DiagonalShifts ==
    { d \in [x : (-E) .. E, y : (-E) .. E] :
        \/ Abs(d.x) = Abs(d.y)
        \/ Abs(d.x) <= DiagonalNear /\ Abs(d.y) <= DiagonalNear }

NextDiagonal == \E d_pixel \in DiagonalShifts : TranslateCall(d_pixel)

SpecDiagonal == InitTranslate /\ [][NextDiagonal]_vars

(***************************************************************************)
(* app_slam_private_clearVehicleRegion called on its own, once, from the   *)
(* map states in which the tick calls it: after a translation, with the    *)
(* indexer at every position.  stamp records the cells the call stores to, *)
(* as offsets from the indexer (world is (0, 0)).                          *)
(***************************************************************************)
VehicleEntryShifts == { Zero2, [x |-> 1, y |-> 0], [x |-> -2, y |-> 3] }

InitVehicle ==
    /\ \E cx \in 0 .. E, cy \in 0 .. E, v \in {-1, 1}, d_pixel \in VehicleEntryShifts :
           /\ gMap = app_slam_private_translateGlobalMap(
                         MapAfterTwoTicks(cx, cy, v), d_pixel)
           /\ shift = d_pixel
    /\ clobbered = "none"
    /\ ticks = 0
    /\ req = Zero2
    /\ sum_req = Zero2
    /\ world = Zero2
    /\ stamp = [k \in CellIndex |-> NoStamp]
    /\ w_arg = 0
    /\ w_ret = << >>

ClearVehicleCall ==
    /\ ticks = 0
    /\ gMap' = app_slam_private_clearVehicleRegion(gMap)
    /\ clobbered' \in StrayTargets(VehicleStores(gMap.map_center_pixel))
    /\ stamp' = StampCells(stamp, {}, VehicleStores(gMap.map_center_pixel),
                           gMap.map_center_pixel, world)
    /\ ticks' = 1
    /\ UNCHANGED << req, shift, sum_req, world, w_arg, w_ret >>

NextVehicle == ClearVehicleCall

SpecVehicle == InitVehicle /\ [][NextVehicle]_vars

(***************************************************************************)
(* The wrap idiom applied to one coordinate.                               *)
(***************************************************************************)
WrapArgs == (-(E + 1) - WrapMargin) .. (2 * E + 1 + WrapMargin)

InitWrap ==
    /\ gMap = app_slam_private_resetGlobalMap
    /\ clobbered = "none"
    /\ ticks = 0
    /\ req = Zero2
    /\ shift = Zero2
    /\ sum_req = Zero2
    /\ world = Zero2
    /\ stamp = [k \in CellIndex |-> NoStamp]
    /\ w_arg \in WrapArgs
    /\ w_ret = << >>

ApplyWrap ==
    /\ w_ret = << >>
    /\ w_ret' = << Wrap(w_arg, GMAP_WN_PIXEL) >>
    /\ UNCHANGED << gMap, clobbered, ticks, req, shift, sum_req, world, stamp, w_arg >>

NextWrap == ApplyWrap

SpecWrap == InitWrap /\ [][NextWrap]_vars

(***************************************************************************)
(* Properties.                                                             *)
(***************************************************************************)
Col(k) == k % GMAP_WN_PIXEL

Row(k) == k \div GMAP_WN_PIXEL

\* A step that runs an operation: a tick, or (in SpecTranslate) the
\* translation called on its own.
TickStep == ticks' = ticks + 1

\* The newly exposed band of a shift d on one axis, as storage indices:
\* the |d| indices congruent modulo E + 1 to base .. base + d - 1 (d > 0)
\* or base + d .. base - 1 (d < 0), with base = centre index - E/2.
ExposedIndices(c, half, d, n) ==
    { i % n : i \in (IF d >= 0 THEN (c - half) .. (c - half + d - 1)
                              ELSE (c - half + d) .. (c - half - 1)) }

InExposedBand(k, mc_pixel, d_pixel) ==
    \/ Col(k) \in ExposedIndices(mc_pixel.x, GMAP_DEFAULT_CENTRAL_X_INDEX_PIXEL,
                                 d_pixel.x, GMAP_WN_PIXEL)
    \/ Row(k) \in ExposedIndices(mc_pixel.y, GMAP_DEFAULT_CENTRAL_Y_INDEX_PIXEL,
                                 d_pixel.y, GMAP_HN_PIXEL)

\* C1 -- Translation coverage: for every centre index in [0,E]x[0,E] and
\* every shift with |dx| <= E and |dy| <= E, after the translation every
\* cell of the newly exposed band is neutral and every other cell is
\* unchanged.
C1_TranslationCoverage ==
    [][ TickStep =>
          \A k \in CellIndex :
              gMap'.data[k] =
                  IF InExposedBand(k, gMap.map_center_pixel, shift')
                    THEN GRID_CELL_NEUTRAL ELSE gMap.data[k] ]_vars

\* C2 -- No stale cells: every cell holding VISITED stands for a world
\* pixel the footprint covered at an earlier tick and that has been inside
\* the robot-centred window at every tick since.
C2_NoStaleCells ==
    \A k \in CellIndex :
        gMap.data[k] = GRID_CELL_VISITED =>
            /\ stamp[k].tag = "at"
            /\ stamp[k].x = WorldOf(k, gMap.map_center_pixel, world).x
            /\ stamp[k].y = WorldOf(k, gMap.map_center_pixel, world).y

\* C3 -- Wraparound correctness: for every c in [-E, 2E] the wrap adds
\* +(E+1) when c < 0, 0 when 0 <= c <= E and -(E+1) when c > E, and the
\* result lies in [0, E] and is congruent to c modulo E + 1.
C3_WrapCorrect ==
    (w_ret # << >> /\ w_arg \in (-E) .. (2 * E)) =>
        /\ w_ret[1] \in 0 .. E
        /\ (w_ret[1] - w_arg) % (E + 1) = 0
        /\ w_ret[1] - w_arg = (IF w_arg < 0 THEN E + 1
                               ELSE IF w_arg > E THEN -(E + 1) ELSE 0)

C3_Witness == w_arg = 2 * E /\ w_ret = << E - 1 >>

\* C4 -- Precondition violation is non-mutating: a tick whose pixel shift
\* exceeds E on an axis leaves every cell, the centre index and the
\* sub-pixel offset as they were (and so never leaves the centre index
\* outside [0, E]).
C4_FaultLeavesMap ==
    [][ (TickStep /\ (Abs(shift'.x) > E \/ Abs(shift'.y) > E)) =>
          gMap' = gMap ]_vars

\* C5 -- Centre index invariant: both components of the centre index lie
\* in [0, E] in every reachable state, and every translation sets each
\* component to (old component + shift) mod (E + 1).
C5_CenterIndex ==
    /\ [](/\ gMap.map_center_pixel.x \in 0 .. E
          /\ gMap.map_center_pixel.y \in 0 .. E)
    /\ [][ TickStep =>
             /\ gMap'.map_center_pixel.x =
                    (gMap.map_center_pixel.x + shift'.x) % (E + 1)
             /\ gMap'.map_center_pixel.y =
                    (gMap.map_center_pixel.y + shift'.y) % (E + 1) ]_vars

\* A negative shift that took the centre index below 0 and wrapped it.
C5_Witness ==
    /\ ticks > 0
    /\ shift.x = -E
    /\ gMap.map_center_pixel.x > GMAP_DEFAULT_CENTRAL_X_INDEX_PIXEL
    /\ gMap.map_center_pixel.x <= E

\* C6 -- Drift conservation: on each axis, the pixel shifts applied since
\* the initialisation times the grid step, plus the stored leftover, equal
\* the displacements requested since then (the leftover is zero after the
\* initialisation), and every tick's shift times the grid step plus its new
\* leftover equals its request plus the leftover it started from.
C6_DriftConserved ==
    /\ [](/\ world.x * StepUnits + gMap.map_offset_mm.x = sum_req.x
          /\ world.y * StepUnits + gMap.map_offset_mm.y = sum_req.y)
    /\ [][ TickStep =>
             /\ shift'.x * StepUnits + gMap'.map_offset_mm.x =
                    req'.x + gMap.map_offset_mm.x
             /\ shift'.y * StepUnits + gMap'.map_offset_mm.y =
                    req'.y + gMap.map_offset_mm.y ]_vars

C6_Witness ==
    /\ ticks = MaxTicks
    /\ world.x # 0
    /\ gMap.map_offset_mm.x # 0
    /\ sum_req.x # req.x

Sign(v) == IF v > 0 THEN 1 ELSE IF v < 0 THEN -1 ELSE 0

\* shift is the quotient of combined by the grid step rounded toward zero,
\* and left the remainder: zero, or of the sign of combined.
TruncatedToward0(combined, sh, left) ==
    /\ Abs(sh) * StepUnits <= Abs(combined)
    /\ Abs(combined) < (Abs(sh) + 1) * StepUnits
    /\ Sign(sh) \in {0, Sign(combined)}
    /\ left = combined - sh * StepUnits
    /\ Sign(left) \in {0, Sign(combined)}

\* C7 -- Truncation toward zero: on each axis the pixel shift of a tick is
\* the quotient of (request + previous leftover) by the grid step rounded
\* toward zero, so the new leftover is zero or has the sign of the combined
\* displacement; a request of -5 mm with zero leftover gives shift 0 and
\* leftover -5 mm.
C7_TruncTowardZero ==
    [][ TickStep =>
          /\ TruncatedToward0(req'.x + gMap.map_offset_mm.x, shift'.x,
                              gMap'.map_offset_mm.x)
          /\ TruncatedToward0(req'.y + gMap.map_offset_mm.y, shift'.y,
                              gMap'.map_offset_mm.y)
          /\ (req'.x = mm(-5) /\ gMap.map_offset_mm.x = 0) =>
                 (shift'.x = 0 /\ gMap'.map_offset_mm.x = mm(-5)) ]_vars

C7_Witness ==
    /\ ticks = 1
    /\ req = [x |-> mm(-5), y |-> mm(5)]
    /\ shift = Zero2
    /\ gMap.map_offset_mm = [x |-> mm(-5), y |-> mm(5)]

\* C8 -- Sub-pixel offset bound: after every tick each component of the
\* stored offset lies strictly between -grid step and +grid step.
C8_OffsetBound ==
    /\ Abs(gMap.map_offset_mm.x) < StepUnits
    /\ Abs(gMap.map_offset_mm.y) < StepUnits

\* A tick that shifted the map and stored a leftover on both axes.
C8_Witness ==
    /\ ticks > 1
    /\ shift.x # 0 /\ gMap.map_offset_mm.x # 0
    /\ shift.y # 0 /\ gMap.map_offset_mm.y # 0

\* The one storage column or row a shift of one pixel exposes.
OnePixelColumn(mc_pixel, d) ==
    (mc_pixel.x - GMAP_DEFAULT_CENTRAL_X_INDEX_PIXEL + (IF d > 0 THEN 0 ELSE -1))
        % GMAP_WN_PIXEL

OnePixelRow(mc_pixel, d) ==
    (mc_pixel.y - GMAP_DEFAULT_CENTRAL_Y_INDEX_PIXEL + (IF d > 0 THEN 0 ELSE -1))
        % GMAP_HN_PIXEL

\* C9 -- Single-pixel shift: a translation by exactly one pixel on one
\* axis, from any centre index, makes exactly one storage column (or row)
\* of E + 1 cells neutral and leaves every other cell unchanged.
C9_SinglePixelShift ==
    [][ /\ (TickStep /\ Abs(shift'.x) = 1 /\ shift'.y = 0) =>
              /\ Cardinality({k \in CellIndex :
                     Col(k) = OnePixelColumn(gMap.map_center_pixel, shift'.x)}) = E + 1
              /\ \A k \in CellIndex :
                     gMap'.data[k] =
                         IF Col(k) = OnePixelColumn(gMap.map_center_pixel, shift'.x)
                           THEN GRID_CELL_NEUTRAL ELSE gMap.data[k]
        /\ (TickStep /\ shift'.x = 0 /\ Abs(shift'.y) = 1) =>
              /\ Cardinality({k \in CellIndex :
                     Row(k) = OnePixelRow(gMap.map_center_pixel, shift'.y)}) = E + 1
              /\ \A k \in CellIndex :
                     gMap'.data[k] =
                         IF Row(k) = OnePixelRow(gMap.map_center_pixel, shift'.y)
                           THEN GRID_CELL_NEUTRAL ELSE gMap.data[k] ]_vars

\* After a shift of (+1, 0) from centre index x = 0: the column cleared is
\* E/2 + 1, reached through the wrap (loop index -E/2), and the column next
\* to it still holds marks.
C9_Witness ==
    /\ ticks = 1
    /\ shift = [x |-> 1, y |-> 0]
    /\ gMap.map_center_pixel.x = 1
    /\ clobbered = "none"
    /\ \A k \in CellIndex :
           Col(k) = GMAP_DEFAULT_CENTRAL_X_INDEX_PIXEL + 1 =>
               gMap.data[k] = GRID_CELL_NEUTRAL
    /\ \E k \in CellIndex :
           /\ Col(k) = GMAP_DEFAULT_CENTRAL_X_INDEX_PIXEL + 2
           /\ gMap.data[k] = GRID_CELL_VISITED

\* C10 -- Zero-shift idempotence: a translation by (0, 0) leaves every
\* cell, the centre index and the sub-pixel offset unchanged.
C10_ZeroShift ==
    [][ (TickStep /\ shift' = Zero2) => gMap' = gMap ]_vars

\* After a zero shift with the centre index on the last column.
C10_Witness ==
    /\ ticks = 1
    /\ shift = Zero2
    /\ gMap.map_center_pixel.x = E
    /\ \E k \in CellIndex : gMap.data[k] = GRID_CELL_VISITED

\* C11 -- Reset correctness: after app_slam_init, at start and from any
\* reachable state, every cell is neutral, the centre index is the fixed
\* logical centre (E/2, E/2) and the sub-pixel offset is (0, 0).
C11_ResetCorrect ==
    ticks = 0 =>
        /\ \A k \in CellIndex : gMap.data[k] = GRID_CELL_NEUTRAL
        /\ gMap.map_center_pixel = [x |-> E \div 2, y |-> E \div 2]
        /\ gMap.map_offset_mm = Zero2

\* Reset after a tick (request 1.5 mm, -3.5 mm) that had stored an offset and
\* stamped the footprint.
C11_Witness ==
    /\ ticks = 0
    /\ req = [x |-> 3, y |-> -7]
    /\ gMap.map_center_pixel.x = GMAP_DEFAULT_CENTRAL_X_INDEX_PIXEL
    /\ gMap.map_offset_mm.x = 0

\* The offsets from the indexer of the cells the last call stored to.
WrittenOffsets == { << stamp[k].x, stamp[k].y >> : k \in {c \in CellIndex : stamp[c].tag = "at"} }

\* C12 -- Footprint mask symmetry: for any centre index, the cells written
\* by the footprint clearing, as offsets from the centre index modulo
\* E + 1, are symmetric about the vertical and about the horizontal axis
\* through the centre: (a, b) is written iff (-a, b) is, iff (a, -b) is.
C12_MaskSymmetric ==
    ticks = 1 =>
        \A o \in WrittenOffsets :
            /\ << -o[1], o[2] >> \in WrittenOffsets
            /\ << o[1], -o[2] >> \in WrittenOffsets

\* The footprint written around centre index (0, E): it wraps through both
\* edges of the buffer; offset (-1, +1) is storage cell (column E, row 0).
C12_Witness ==
    /\ ticks = 1
    /\ gMap.map_center_pixel = [x |-> 0, y |-> E]
    /\ stamp[E] = At(-1, 1)
    /\ << 1, -1 >> \in WrittenOffsets

\* C13 -- Cell value domain: in every state reachable from reset by ticks
\* and resets, every cell of the map holds NEUTRAL (0) or VISITED (-10) and
\* no other value.
C13_CellDomain ==
    \A k \in CellIndex : gMap.data[k] \in {GRID_CELL_NEUTRAL, GRID_CELL_VISITED}

\* After two ticks or more, the last one a shift of (-2, 5) pixels whose
\* bands cut through the footprint of the tick before: neutral and visited
\* cells are both present.
C13_Witness ==
    /\ ticks >= 2
    /\ shift = [x |-> -2, y |-> 5]
    /\ \E k \in CellIndex : stamp[k].tag = "none" /\ gMap.data[k] = GRID_CELL_NEUTRAL
    /\ \E k \in CellIndex : stamp[k].tag = "at" /\ gMap.data[k] = GRID_CELL_VISITED

\* The arguments for which one MAP_OFFSET step lands in [0, E].
WrapValid(c) == c \in (-(E + 1)) .. (2 * E + 1)

BandCoordinates(c00, d_pixel) == IF d_pixel = 0 THEN {} ELSE BandLoop(c00, d_pixel)

\* C14 -- In-bounds writes under the documented assumption: whenever the
\* centre index is in [0,E]x[0,E] and dx, dy are in [-E, E], every
\* coordinate the band loops pass through the wrap is within the wrap's
\* valid range, every store of the translation has a linear index in
\* [0, (E+1)*(E+1) - 1] and the wrapped coordinate is a row or column of
\* the buffer.
C14_InBoundsWrites ==
    [][ TickStep =>
          LET xs == BandCoordinates(gMap.map_center_pixel.x
                                      - GMAP_DEFAULT_CENTRAL_X_INDEX_PIXEL, shift'.x)
              ys == BandCoordinates(gMap.map_center_pixel.y
                                      - GMAP_DEFAULT_CENTRAL_Y_INDEX_PIXEL, shift'.y)
          IN  /\ \A i \in xs : WrapValid(i) /\ Wrap(i, GMAP_WN_PIXEL) \in 0 .. E
              /\ \A j \in ys : WrapValid(j) /\ Wrap(j, GMAP_HN_PIXEL) \in 0 .. E
              /\ Stray(TranslateStores(gMap.map_center_pixel, shift')) = {}
              /\ clobbered' = "none" ]_vars

\* The cells of the footprint around centre index (cx, cy), by modular
\* arithmetic: D = 10, row j spans FootprintRows[j] <= i <= D - FootprintRows[j].
FootprintRows == << 4, 2, 1, 1, 0, 0, 0, 1, 1, 2, 4 >>

FootprintCells(cx, cy) ==
    { ((cy - 5 + q[2]) % (E + 1)) * (E + 1) + ((cx - 5 + q[1]) % (E + 1)) :
          q \in { p \in (0 .. 10) \X (0 .. 10) :
                    /\ FootprintRows[p[2] + 1] <= p[1]
                    /\ p[1] <= 10 - FootprintRows[p[2] + 1] } }

\* C15 -- Footprint clearing effect and frame: for any centre index (cx, cy)
\* in [0,E]x[0,E], the footprint clearing sets to VISITED exactly the cells
\* at storage (wrap(cx - D/2 + i), wrap(cy - D/2 + j)) for 0 <= j <= D and
\* PADDING[j] <= i <= D - PADDING[j], every written linear index is inside
\* the buffer, and every other cell, the centre index and the sub-pixel
\* offset are unchanged.
C15_FootprintEffect ==
    [][ TickStep =>
          /\ \A k \in FootprintCells(gMap.map_center_pixel.x, gMap.map_center_pixel.y) :
                 gMap'.data[k] = GRID_CELL_VISITED
          /\ \A k \in CellIndex \ FootprintCells(gMap.map_center_pixel.x,
                                                  gMap.map_center_pixel.y) :
                 gMap'.data[k] = gMap.data[k]
          /\ Stray(VehicleStores(gMap.map_center_pixel)) = {}
          /\ clobbered' = "none"
          /\ gMap'.map_center_pixel = gMap.map_center_pixel
          /\ gMap'.map_offset_mm = gMap.map_offset_mm ]_vars

\* The footprint stamped around centre index (E, 0) after a translation by
\* (-2, 3): the mask wraps through the right and the top edge (offset
\* (+5, 0) is column 4 of row 0) and cells outside it stay neutral.
C15_Witness ==
    /\ ticks = 1
    /\ shift = [x |-> -2, y |-> 3]
    /\ gMap.map_center_pixel = [x |-> E, y |-> 0]
    /\ gMap.data[4] = GRID_CELL_VISITED
    /\ gMap.data[E] = GRID_CELL_VISITED
    /\ \E k \in CellIndex : gMap.data[k] = GRID_CELL_NEUTRAL
    /\ clobbered = "none"

\* C16 -- Tick ordering: within every tick the translation runs before the
\* footprint clearing, so the footprint is stamped around the post-shift
\* centre index: at the end of every tick every cell of the footprint mask
\* around the current centre index is VISITED, even when that tick's
\* cleared band overlaps the mask.
C16_FootprintAfterShift ==
    ticks > 0 =>
        \A k \in FootprintCells(gMap.map_center_pixel.x, gMap.map_center_pixel.y) :
            /\ gMap.data[k] = GRID_CELL_VISITED
            /\ stamp[k] = At(WorldOf(k, gMap.map_center_pixel, world).x,
                             WorldOf(k, gMap.map_center_pixel, world).y)

\* A tick that shifted by (-2, 5): the cleared columns are those at offsets
\* -6 and -5 from the new centre index; the one at -5 crosses the mask and
\* is VISITED there, the one at -6 is outside the mask and neutral.
C16_Witness ==
    /\ ticks > 0
    /\ shift = [x |-> -2, y |-> 5]
    /\ gMap.data[gMap.map_center_pixel.y * GMAP_WN_PIXEL
                 + ((gMap.map_center_pixel.x - 5) % GMAP_WN_PIXEL)] = GRID_CELL_VISITED
    /\ gMap.data[gMap.map_center_pixel.y * GMAP_WN_PIXEL
                 + ((gMap.map_center_pixel.x - 6) % GMAP_WN_PIXEL)] = GRID_CELL_NEUTRAL

\* C17 -- Diagonal shift decomposes: for any centre index in [0,E]x[0,E]
\* and any (dx, dy) whose band coordinates are all within the wrap's valid
\* range, translate(dx, dy) yields the same cells and centre index as
\* translate(dx, 0) followed by translate(0, dy), and as translate(0, dy)
\* followed by translate(dx, 0); the cells lying in both the vertical and
\* the horizontal band end neutral.
C17_DiagonalDecomposes ==
    [][ ( /\ TickStep
          /\ \A i \in BandCoordinates(gMap.map_center_pixel.x
                        - GMAP_DEFAULT_CENTRAL_X_INDEX_PIXEL, shift'.x) : WrapValid(i)
          /\ \A j \in BandCoordinates(gMap.map_center_pixel.y
                        - GMAP_DEFAULT_CENTRAL_Y_INDEX_PIXEL, shift'.y) : WrapValid(j) )
        =>
          /\ gMap' = app_slam_private_translateGlobalMap(
                         app_slam_private_translateGlobalMap(
                             gMap, [x |-> shift'.x, y |-> 0]),
                         [x |-> 0, y |-> shift'.y])
          /\ gMap' = app_slam_private_translateGlobalMap(
                         app_slam_private_translateGlobalMap(
                             gMap, [x |-> 0, y |-> shift'.y]),
                         [x |-> shift'.x, y |-> 0])
          /\ \A c \in ExposedIndices(gMap.map_center_pixel.x,
                                      GMAP_DEFAULT_CENTRAL_X_INDEX_PIXEL,
                                      shift'.x, GMAP_WN_PIXEL),
                r \in ExposedIndices(gMap.map_center_pixel.y,
                                      GMAP_DEFAULT_CENTRAL_Y_INDEX_PIXEL,
                                      shift'.y, GMAP_HN_PIXEL) :
                 gMap'.data[r * GMAP_WN_PIXEL + c] = GRID_CELL_NEUTRAL ]_vars

\* After translate(3, 3) from the logical centre: columns 0..2 and rows
\* 0..2 are exposed; the corner cell (0, 0) lies in both and is neutral,
\* and marks remain outside the bands.
C17_Witness ==
    /\ ticks = 1
    /\ shift = [x |-> 3, y |-> 3]
    /\ gMap.map_center_pixel = [x |-> GMAP_DEFAULT_CENTRAL_X_INDEX_PIXEL + 3,
                                y |-> GMAP_DEFAULT_CENTRAL_Y_INDEX_PIXEL + 3]
    /\ clobbered = "none"
    /\ gMap.data[0] = GRID_CELL_NEUTRAL
    /\ \E k \in CellIndex : gMap.data[k] = GRID_CELL_VISITED

\* C18 -- Behaviour under the built-in constant displacement: starting
\* from app_slam_init, with the request (-10 mm, -10 mm) at every tick and
\* a grid step of 10 mm, every tick applies a shift of exactly (-1, -1)
\* pixels, the stored leftover stays (0, 0), and after n ticks the centre
\* index is (E/2 - n) mod (E + 1) on both axes, so it is back at
\* (E/2, E/2) after every E + 1 ticks.
C18_MockDrift ==
    /\ ticks > 0 => req = [x |-> mm(-10), y |-> mm(-10)] /\ shift = [x |-> -1, y |-> -1]
    /\ gMap.map_offset_mm = Zero2
    /\ gMap.map_center_pixel.x = (E \div 2 - ticks) % (E + 1)
    /\ gMap.map_center_pixel.y = (E \div 2 - ticks) % (E + 1)
    /\ ticks % (E + 1) = 0 => gMap.map_center_pixel = [x |-> E \div 2, y |-> E \div 2]

\* E + 1 ticks after the initialisation: the robot is E + 1 pixels away on
\* both axes and the centre index is back at (E/2, E/2).
C18_Witness ==
    /\ ticks = E + 1
    /\ world = [x |-> -(E + 1), y |-> -(E + 1)]
    /\ shift = [x |-> -1, y |-> -1]
    /\ gMap.map_center_pixel = [x |-> E \div 2, y |-> E \div 2]
    /\ gMap.map_offset_mm = Zero2

=============================================================================
